---- MODULE Spec2Model ----
(***************************************************************************)
(* Model of the complexity package of asger-noer/gql: the selection-set    *)
(* flattener (flatten, flattenSelectionSet, findFragmentDefinition), the   *)
(* document analyser (AnalyseDocument) and the batch runner (RunAnalysis). *)
(*                                                                         *)
(* The AST is a heap: a sequence of nodes addressed by their index, so     *)
(* that the pointer writes of the code (existing.SelectionSet = ...) are   *)
(* writes to a shared store and aliasing is visible.                       *)
(***************************************************************************)
EXTENDS Integers, Sequences, FiniteSets, TLC

VARIABLES
    heap,            \* the AST store: node id -> node
    queryDoc,        \* *ast.QueryDocument: Operations and Fragments
    parsed,          \* the heap as the parser left it (history variable)
    phase,           \* what has been called on queryDoc so far
    flat,            \* the flatten calls made: [i: operation index, op: result]
    reflat,          \* flattenSelectionSet applied to the last result again
    inlined,         \* flattenSelectionSet with one fragment expanded by hand
    documentResults, \* what AnalyseDocument returned
    pc,              \* RunAnalysis: position in the function
    schemas,         \* RunAnalysis: number of schema files matched
    matches,         \* RunAnalysis: the document files matched
    idx,             \* RunAnalysis: index of the file in hand
    queryFile,       \* RunAnalysis: the parsed document of the file in hand
    results,         \* RunAnalysis: the records gathered
    err,             \* RunAnalysis: the error returned, "" for nil
    fileLog          \* per file, how it ended and its records (history variable)

coreVars == <<heap, queryDoc, parsed, phase, flat, reflat, inlined, documentResults>>
runVars  == <<pc, schemas, matches, idx, queryFile, results, err, fileLog>>
vars     == <<coreVars, runVars>>

----------------------------------------------------------------------------
(* AST nodes (ast.Field, ast.InlineFragment, ast.FragmentSpread).           *)

Field(alias, name, args, sels) ==
    [kind |-> "Field", Alias |-> alias, Name |-> name, Arguments |-> args,
     SelectionSet |-> sels]

InlineFragment(sels) ==
    [kind |-> "InlineFragment", Alias |-> "", Name |-> "", Arguments |-> 0,
     SelectionSet |-> sels]

FragmentSpread(name) ==
    [kind |-> "FragmentSpread", Alias |-> "", Name |-> name, Arguments |-> 0,
     SelectionSet |-> <<>>]

----------------------------------------------------------------------------
(* flattenSelectionSet and its parts.  A context c = [h, seed] carries the  *)
(* heap and the seed the map iteration orders are drawn from.               *)

\* Mutant of Key: the response key, the alias alone when there is one.
KeyResponseOnly(f) == IF f.Alias # "" THEN f.Alias ELSE f.Name

\* Mutant of Key: the name alone, the alias ignored.
KeyNameOnly(f) == f.Name

\* key := sel.Name; if sel.Alias != "" { key = sel.Alias + ":" + sel.Name }
Key(f) == IF f.Alias # "" THEN f.Alias \o ":" \o f.Name ELSE f.Name

\* for _, frag := range doc.Fragments { if frag.Name == name { return frag } }
\* 0 stands for nil, otherwise the index of the first match.
findFragmentDefinition(doc, name) ==
    LET hits == {i \in 1..Len(doc.Fragments) : doc.Fragments[i].Name = name}
    IN  IF hits = {} THEN 0 ELSE CHOOSE i \in hits : \A j \in hits : i <= j

\* A fixed enumeration of a finite set, the base the iteration orders permute.
SetToSeq(S) ==
    CHOOSE s \in [1..Cardinality(S) -> S] : {s[i] : i \in 1..Cardinality(S)} = S

RECURSIVE Permute(_, _)
\* The n-th permutation of s.
Permute(s, n) ==
    IF Len(s) = 0 THEN <<>>
    ELSE LET i == (n % Len(s)) + 1
             rest == [j \in 1..(Len(s) - 1) |-> IF j < i THEN s[j] ELSE s[j + 1]]
         IN  <<s[i]>> \o Permute(rest, n \div Len(s))

RECURSIVE Factorial(_)
Factorial(n) == IF n <= 1 THEN 1 ELSE n * Factorial(n - 1)

\* for _, field := range fieldMap { flattened = append(flattened, field) }
\* Go iterates a map in an unspecified order: each conversion of a map with
\* n >= 2 entries takes one of its n! orders from the seed.
MapToSelectionSet(s) ==
    LET keys == SetToSeq(DOMAIN s.fieldMap)
        f    == Factorial(Len(keys))
        ord  == Permute(keys, s.c.seed % f)
    IN  [h    |-> s.c.h,
         seed |-> s.c.seed \div f,
         out  |-> [i \in 1..Len(ord) |-> s.fieldMap[ord[i]]]]

\* Mutant of NewFlattenedField: the input node is reused and written to.
ReuseField(h, sel, sels) ==
    [h |-> [h EXCEPT ![sel].SelectionSet = sels], id |-> sel]

\* flattenedField := &ast.Field{Alias: sel.Alias, ..., SelectionSet: <flattened>}
\* A new node: the input node sel is only read.
NewFlattenedField(h, sel, sels) ==
    [h  |-> Append(h, Field(h[sel].Alias, h[sel].Name, h[sel].Arguments, sels)),
     id |-> Len(h) + 1]

Put(fieldMap, key, id) ==
    [k \in DOMAIN fieldMap \cup {key} |-> IF k = key THEN id ELSE fieldMap[k]]

EmptyMap == [k \in {} |-> 0]

RECURSIVE flattenSelectionSet(_, _, _)
RECURSIVE FlattenLoop(_, _, _, _)
RECURSIVE FoldFragment(_, _, _, _)

\* existing.SelectionSet = <r, the flattened merged selection set>
SetSelectionSet(existing, r) ==
    [h |-> [r.h EXCEPT ![existing].SelectionSet = r.out], seed |-> r.seed]

\* Mutant of MergeInto: the merged selection set is stored unflattened.
MergeIntoUnflattened(c, existing, sel, doc) ==
    [h    |-> [c.h EXCEPT ![existing].SelectionSet =
                  c.h[existing].SelectionSet \o c.h[sel].SelectionSet],
     seed |-> c.seed]

\* mergedSelectionSet := existing.SelectionSet ++ field.SelectionSet
\* existing.SelectionSet = flattenSelectionSet(mergedSelectionSet, doc)
MergeInto(c, existing, sel, doc) ==
    SetSelectionSet(existing,
        flattenSelectionSet(c, c.h[existing].SelectionSet \o c.h[sel].SelectionSet, doc))

\* fieldMap[key] = flattenedField, r the flattened selection set of sel.
PutFlattenedField(fieldMap, key, sel, r) ==
    LET n == NewFlattenedField(r.h, sel, r.out)
    IN  [c |-> [h |-> n.h, seed |-> r.seed], fieldMap |-> Put(fieldMap, key, n.id)]

\* case *ast.Field.  s = [c, fieldMap] is the state of the loop.
FieldCase(s, sel, doc) ==
    LET key == Key(s.c.h[sel])
    IN  IF key \in DOMAIN s.fieldMap
        THEN [c |-> MergeInto(s.c, s.fieldMap[key], sel, doc), fieldMap |-> s.fieldMap]
        ELSE PutFlattenedField(s.fieldMap, key, sel,
                 flattenSelectionSet(s.c, s.c.h[sel].SelectionSet, doc))

\* Mutant of FoldOne: a Field of the fragment replaces the entry of its key.
FoldOneOverwrite(s, field, doc) ==
    [c |-> s.c, fieldMap |-> Put(s.fieldMap, Key(s.c.h[field]), field)]

\* One iteration of "for _, fragSel := range fragmentSelections".
FoldOne(s, field, doc) ==
    LET key == Key(s.c.h[field])
    IN  IF s.c.h[field].kind # "Field"
        THEN s
        ELSE IF key \in DOMAIN s.fieldMap
        THEN [c |-> MergeInto(s.c, s.fieldMap[key], field, doc), fieldMap |-> s.fieldMap]
        ELSE [c |-> s.c, fieldMap |-> Put(s.fieldMap, key, field)]

RECURSIVE FoldFragmentBreak(_, _, _, _)
\* Mutant of FoldFragment: break instead of continue after a merge.
FoldFragmentBreak(s, fragmentSelections, j, doc) ==
    IF j > Len(fragmentSelections)
    THEN s
    ELSE IF Key(s.c.h[fragmentSelections[j]]) \in DOMAIN s.fieldMap
    THEN FoldOne(s, fragmentSelections[j], doc)
    ELSE FoldFragmentBreak(FoldOne(s, fragmentSelections[j], doc),
                           fragmentSelections, j + 1, doc)

\* for _, fragSel := range fragmentSelections { ... }
FoldFragment(s, fragmentSelections, j, doc) ==
    IF j > Len(fragmentSelections)
    THEN s
    ELSE FoldFragment(FoldOne(s, fragmentSelections[j], doc), fragmentSelections, j + 1, doc)

\* fragmentSelections := <r>; then the loop over it.
FoldSelections(fieldMap, r, doc) ==
    FoldFragment([c |-> [h |-> r.h, seed |-> r.seed], fieldMap |-> fieldMap], r.out, 1, doc)

\* case *ast.InlineFragment
InlineFragmentCase(s, sel, doc) ==
    FoldSelections(s.fieldMap, flattenSelectionSet(s.c, s.c.h[sel].SelectionSet, doc), doc)

\* case *ast.FragmentSpread
FragmentSpreadCase(s, sel, doc) ==
    LET fragDef == findFragmentDefinition(doc, s.c.h[sel].Name)
    IN  IF fragDef # 0
        THEN FoldSelections(s.fieldMap,
                 flattenSelectionSet(s.c, doc.Fragments[fragDef].SelectionSet, doc), doc)
        ELSE s

\* switch sel := selection.(type)
SelectionCase(s, sel, doc) ==
    CASE s.c.h[sel].kind = "Field"          -> FieldCase(s, sel, doc)
      [] s.c.h[sel].kind = "InlineFragment" -> InlineFragmentCase(s, sel, doc)
      [] s.c.h[sel].kind = "FragmentSpread" -> FragmentSpreadCase(s, sel, doc)

\* for _, selection := range selectionSet { ... }
FlattenLoop(s, selectionSet, i, doc) ==
    IF i > Len(selectionSet)
    THEN s
    ELSE FlattenLoop(SelectionCase(s, selectionSet[i], doc), selectionSet, i + 1, doc)

flattenSelectionSet(c, selectionSet, doc) ==
    MapToSelectionSet(FlattenLoop([c |-> c, fieldMap |-> EmptyMap], selectionSet, 1, doc))

\* &ast.OperationDefinition{Name: op.Name, ..., SelectionSet: <r>}
NewOperation(op, r) ==
    [h |-> r.h, seed |-> r.seed, op |-> [Name |-> op.Name, SelectionSet |-> r.out]]

\* Mutant of flatten: the copy keeps the selection set of the input.
flattenShallow(c, doc, op) ==
    [h |-> c.h, seed |-> c.seed,
     op |-> [Name |-> op.Name, SelectionSet |-> op.SelectionSet]]

\* flatten: a new operation with the flattened selection set.
flatten(c, doc, op) == NewOperation(op, flattenSelectionSet(c, op.SelectionSet, doc))

----------------------------------------------------------------------------
(* The complexity scorer as AnalyseDocument configures it.                  *)

\* ComplexityFunc: return childComplexity + 1, true
ComplexityFunc(childComplexity) == childComplexity + 1

RECURSIVE selectionSetComplexity(_, _, _, _)
\* The walk of complexity.Calculate: the sum, over the selections, of the
\* field's cost, or of the cost of the selection set a fragment stands for.
selectionSetComplexity(h, doc, selectionSet, i) ==
    IF i > Len(selectionSet) THEN 0
    ELSE LET s == h[selectionSet[i]]
             here ==
               CASE s.kind = "Field" ->
                      ComplexityFunc(selectionSetComplexity(h, doc, s.SelectionSet, 1))
                 [] s.kind = "InlineFragment" ->
                      selectionSetComplexity(h, doc, s.SelectionSet, 1)
                 [] s.kind = "FragmentSpread" ->
                      selectionSetComplexity(h, doc,
                          doc.Fragments[findFragmentDefinition(doc, s.Name)].SelectionSet, 1)
         IN  here + selectionSetComplexity(h, doc, selectionSet, i + 1)

Calculate(h, doc, op) == selectionSetComplexity(h, doc, op.SelectionSet, 1)

----------------------------------------------------------------------------
(* Reading a tree off the heap.                                             *)

RECURSIVE Reach(_, _, _)
\* The nodes reachable from a selection sequence, fragments followed by name.
Reach(h, doc, selectionSet) ==
    UNION {
        {selectionSet[i]}
        \cup Reach(h, doc, h[selectionSet[i]].SelectionSet)
        \cup (IF h[selectionSet[i]].kind = "FragmentSpread"
                 /\ findFragmentDefinition(doc, h[selectionSet[i]].Name) # 0
              THEN Reach(h, doc,
                     doc.Fragments[findFragmentDefinition(doc, h[selectionSet[i]].Name)].SelectionSet)
              ELSE {})
        : i \in 1..Len(selectionSet)}

RECURSIVE Canon(_, _)
\* A selection sequence of Fields as a set, sibling order forgotten.
Canon(h, selectionSet) ==
    {[kind |-> h[selectionSet[i]].kind,
      Alias |-> h[selectionSet[i]].Alias,
      Name |-> h[selectionSet[i]].Name,
      Arguments |-> h[selectionSet[i]].Arguments,
      SelectionSet |-> Canon(h, h[selectionSet[i]].SelectionSet)]
     : i \in 1..Len(selectionSet)}

RECURSIVE CountNodes(_, _)
CountNodes(h, selectionSet) ==
    IF Len(selectionSet) = 0 THEN 0
    ELSE 1 + CountNodes(h, h[Head(selectionSet)].SelectionSet)
           + CountNodes(h, Tail(selectionSet))

----------------------------------------------------------------------------
(* Documents as the parser builds them: every node allocated once.          *)

RECURSIVE Alloc(_, _)
\* Lays a sequence of nested nodes out on the heap, children first.
Alloc(h, trees) ==
    IF Len(trees) = 0 THEN [h |-> h, ids |-> <<>>]
    ELSE LET kids == Alloc(h, Head(trees).SelectionSet)
             me   == Append(kids.h, [Head(trees) EXCEPT !.SelectionSet = kids.ids])
             rest == Alloc(me, Tail(trees))
         IN  [h |-> rest.h, ids |-> <<Len(me)>> \o rest.ids]

RECURSIVE AllocDefs(_, _)
\* Lays out named definitions (operations or fragments).
AllocDefs(h, defs) ==
    IF Len(defs) = 0 THEN [h |-> h, defs |-> <<>>]
    ELSE LET a == Alloc(h, Head(defs).SelectionSet)
             rest == AllocDefs(a.h, Tail(defs))
         IN  [h |-> rest.h,
              defs |-> <<[Name |-> Head(defs).Name, SelectionSet |-> a.ids]>> \o rest.defs]

\* parser.ParseQuery: the heap and the document of a source text.
ParseQuery(src) ==
    LET o == AllocDefs(<<>>, src.Operations)
        f == AllocDefs(o.h, src.Fragments)
    IN  [h |-> f.h, doc |-> [Operations |-> o.defs, Fragments |-> f.defs]]

Def(name, sels) == [Name |-> name, SelectionSet |-> sels]

----------------------------------------------------------------------------
(* AnalyseDocument.                                                         *)

SpreadsResolve(h, doc) ==
    \A id \in 1..Len(h) :
        h[id].kind = "FragmentSpread" => findFragmentDefinition(doc, h[id].Name) # 0

\* validator.ValidateWithRules(schemaDoc, queryDoc, rules.NewDefaultRules()):
\* the schema's verdict, and never a pass for a spread that names no fragment.
ValidateWithRules(h, doc, schemaAccepts) == schemaAccepts /\ SpreadsResolve(h, doc)

\* Mutant of DocumentAnalysis: the two complexities swapped.
DocumentAnalysisSwapped(h, doc, op, flatOp) ==
    [OperationName       |-> op.Name,
     Complexity          |-> Calculate(h, doc, flatOp),
     FlattenedComplexity |-> Calculate(h, doc, op)]

\* DocumentAnalysis{OperationName: op.Name, Complexity: Calculate(op),
\*                  FlattenedComplexity: Calculate(flatOp)}
DocumentAnalysis(h, doc, op, flatOp) ==
    [OperationName       |-> op.Name,
     Complexity          |-> Calculate(h, doc, op),
     FlattenedComplexity |-> Calculate(h, doc, flatOp)]

RECURSIVE AnalyseLoop(_, _, _, _)

\* documentResults = append(documentResults, DocumentAnalysis{...}), r the
\* result of flatten(queryDoc, op); then the next operation.
AppendAnalysis(doc, i, acc, r) ==
    AnalyseLoop([h |-> r.h, seed |-> r.seed], doc, i + 1,
        [results |-> Append(acc.results,
                        DocumentAnalysis(r.h, doc, doc.Operations[i], r.op)),
         flat    |-> Append(acc.flat, [i |-> i, op |-> r.op])])

\* for _, op := range queryDoc.Operations { flatOp := flatten(queryDoc, op); ... }
AnalyseLoop(c, doc, i, acc) ==
    IF i > Len(doc.Operations)
    THEN [err |-> FALSE, h |-> c.h, results |-> acc.results, flat |-> acc.flat]
    ELSE AppendAnalysis(doc, i, acc, flatten(c, doc, doc.Operations[i]))

AnalyseDocument(c, schemaAccepts, doc) ==
    IF ~ValidateWithRules(c.h, doc, schemaAccepts)
    THEN [err |-> TRUE, h |-> c.h, results |-> <<>>, flat |-> <<>>]
    ELSE AnalyseLoop(c, doc, 1, [results |-> <<>>, flat |-> <<>>])

----------------------------------------------------------------------------
(* The documents and seeds the model runs on.                               *)

MaxNodes   == 3   \* selections in a generated operation
MaxSpreads == 2   \* spreads under the root field of a spread document
MaxLeaves  == 2   \* leaf fields in a fragment of a spread document
MaxSeed    == 5   \* seeds of the map iteration order: 0..MaxSeed

Seeds == 0..MaxSeed

\* <<alias, name, arguments>>; the parser sets the alias of an unaliased
\* field to its name.
Labels == {<<"a", "a", 0>>, <<"a", "a", 1>>, <<"x", "a", 0>>, <<"x", "b", 0>>}

SpreadNames == {"H", "Missing"}

RECURSIVE Forests(_)
\* The selections with n nodes in all.
Trees(n) ==
    {Field(l[1], l[2], l[3], k) : l \in Labels, k \in Forests(n - 1)}
    \cup (IF n = 1 THEN {FragmentSpread(s) : s \in SpreadNames}
                    ELSE {InlineFragment(k) : k \in Forests(n - 1)})

\* The selection sequences with n nodes in all.
Forests(n) ==
    IF n = 0 THEN {<<>>}
    ELSE UNION {{<<t>> \o f : t \in Trees(k), f \in Forests(n - k)} : k \in 1..n}

\* Fragments shared by the generated operations: H spreads U, and both
\* select x: b with different children.
SharedFragments ==
    <<Def("H", <<Field("a", "a", 1, <<>>),
                 Field("x", "b", 0, <<Field("a", "a", 0, <<>>)>>),
                 FragmentSpread("U")>>),
      Def("U", <<Field("x", "a", 0, <<>>),
                 Field("x", "b", 0, <<Field("a", "a", 1, <<>>)>>)>>)>>

GeneratedDocs ==
    {[Operations |-> <<Def("Q", o)>>, Fragments |-> SharedFragments]
        : o \in UNION {Forests(n) : n \in 0..MaxNodes}}

\* Two operations of one document, sharing its fragments.
TwoOperationDocs ==
    {[Operations |-> <<Def("A", o1), Def("B", o2)>>, Fragments |-> SharedFragments]
        : o1 \in Forests(1), o2 \in Forests(1)}

\* a { x: b { l1 } } beside a { x: b { l2 } }, the second directly or in an
\* inline fragment: the duplicates meet two levels down.
DeepDocs ==
    LET P(l) == Field("a", "a", 0,
                    <<Field("x", "b", 0, <<Field(l[1], l[2], l[3], <<>>)>>)>>)
    IN  {[Operations |-> <<Def("Q", <<P(l1), P(l2)>>)>>, Fragments |-> <<>>]
            : l1 \in Labels, l2 \in Labels}
        \cup
        {[Operations |-> <<Def("Q", <<P(l1), InlineFragment(<<P(l2)>>)>>)>>,
          Fragments |-> <<>>]
            : l1 \in Labels, l2 \in Labels}

LeafNames == <<"id", "name", "email", "phone">>

\* query GetOrder { user { ...F1 ... ...Fk } } where HeaderFragment and
\* UserFragment both select the first n of LeafNames.
SpreadDoc(names, n) ==
    LET body == [j \in 1..n |-> Field(LeafNames[j], LeafNames[j], 0, <<>>)]
    IN  [Operations |-> <<Def("GetOrder",
            <<Field("user", "user", 1,
                [j \in 1..Len(names) |-> FragmentSpread(names[j])])>>)>>,
         Fragments |-> <<Def("HeaderFragment", body), Def("UserFragment", body)>>]

SpreadDocs ==
    {SpreadDoc(names, n) :
        names \in UNION {[1..k -> {"HeaderFragment", "UserFragment"}] : k \in 1..MaxSpreads},
        n \in 0..MaxLeaves}

\* The fixture of TestAnalyseDocument.
fragmentedQuery ==
    [Operations |-> <<Def("GetOrder",
        <<Field("user", "user", 1,
            <<FragmentSpread("HeaderFragment"), FragmentSpread("UserFragment")>>)>>)>>,
     Fragments |-> <<
        Def("HeaderFragment", <<Field("id", "id", 0, <<>>), Field("name", "name", 0, <<>>)>>),
        Def("UserFragment", <<Field("id", "id", 0, <<>>), Field("name", "name", 0, <<>>)>>)>>]

Docs == GeneratedDocs \cup TwoOperationDocs \cup DeepDocs \cup SpreadDocs \cup {fragmentedQuery}

EmptyDoc == [Operations |-> <<>>, Fragments |-> <<>>]

----------------------------------------------------------------------------
(* Calls on one parsed document.                                            *)

Last(s) == s[Len(s)]

Init ==
    /\ \E src \in Docs :
          /\ heap = ParseQuery(src).h
          /\ queryDoc = ParseQuery(src).doc
    /\ parsed = heap
    /\ phase = "parsed"
    /\ flat = <<>>
    /\ reflat = <<>>
    /\ inlined = <<>>
    /\ documentResults = <<>>
    /\ pc = "idle"
    /\ schemas = 0
    /\ matches = <<>>
    /\ idx = 0
    /\ queryFile = [h |-> <<>>, doc |-> EmptyDoc]
    /\ results = <<>>
    /\ err = ""
    /\ fileLog = <<>>

\* The operation returns r: its writes to the store and its result.
FlattenReturns(i, r) ==
    /\ heap' = r.h
    /\ flat' = Append(flat, [i |-> i, op |-> r.op])

\* flatOp := flatten(queryDoc, op), on an operation not flattened yet.
Flatten(i) ==
    /\ phase \in {"parsed", "flattened"}
    /\ \A k \in 1..Len(flat) : flat[k].i # i
    /\ \E seed \in Seeds :
          FlattenReturns(i, flatten([h |-> heap, seed |-> seed], queryDoc,
                                    queryDoc.Operations[i]))
    /\ phase' = "flattened"
    /\ UNCHANGED <<queryDoc, parsed, reflat, inlined, documentResults, runVars>>

ReflattenReturns(r) ==
    /\ heap' = r.h
    /\ reflat' = r.out

\* flattenSelectionSet on the selection set the last flatten returned.
Reflatten ==
    /\ phase = "flattened"
    /\ \E seed \in Seeds :
          ReflattenReturns(flattenSelectionSet([h |-> heap, seed |-> seed],
                                               Last(flat).op.SelectionSet, queryDoc))
    /\ phase' = "reflattened"
    /\ UNCHANGED <<queryDoc, parsed, flat, inlined, documentResults, runVars>>

\* What a fragment selection stands for.
FragmentContents(h, doc, sel) ==
    IF h[sel].kind = "InlineFragment" THEN h[sel].SelectionSet
    ELSE doc.Fragments[findFragmentDefinition(doc, h[sel].Name)].SelectionSet

IsFragment(h, doc, sel) ==
    \/ h[sel].kind = "InlineFragment"
    \/ h[sel].kind = "FragmentSpread" /\ findFragmentDefinition(doc, h[sel].Name) # 0

\* S with its p-th selection replaced by the Fields r.out, flattened.
FlattenReplaced(S, p, r, doc) ==
    flattenSelectionSet([h |-> r.h, seed |-> r.seed],
        SubSeq(S, 1, p - 1) \o r.out \o SubSeq(S, p + 1, Len(S)), doc)

InlinedReturns(r) ==
    /\ heap' = r.h
    /\ inlined' = r.out

\* flattenSelectionSet on the root selection set of the operation last
\* flattened, with its p-th selection, a fragment, replaced by the Fields of
\* that fragment's flattened selection set.
FlattenInlined(p) ==
    /\ phase = "flattened"
    /\ p \in 1..Len(queryDoc.Operations[Last(flat).i].SelectionSet)
    /\ IsFragment(heap, queryDoc, queryDoc.Operations[Last(flat).i].SelectionSet[p])
    /\ \E seed \in Seeds :
          InlinedReturns(
              FlattenReplaced(queryDoc.Operations[Last(flat).i].SelectionSet, p,
                  flattenSelectionSet([h |-> heap, seed |-> seed],
                      FragmentContents(heap, queryDoc,
                          queryDoc.Operations[Last(flat).i].SelectionSet[p]),
                      queryDoc),
                  queryDoc))
    /\ phase' = "inlined"
    /\ UNCHANGED <<queryDoc, parsed, flat, reflat, documentResults, runVars>>

AnalyseReturns(r) ==
    /\ ~r.err
    /\ heap' = r.h
    /\ flat' = r.flat
    /\ documentResults' = r.results

\* AnalyseDocument(ctx, schemaDoc, queryDoc) returns the records.
AnalyseOk ==
    /\ phase = "parsed"
    /\ \E seed \in Seeds, schemaAccepts \in BOOLEAN :
          AnalyseReturns(AnalyseDocument([h |-> heap, seed |-> seed], schemaAccepts, queryDoc))
    /\ phase' = "analysed"
    /\ UNCHANGED <<queryDoc, parsed, reflat, inlined, runVars>>

\* AnalyseDocument returns nil and the validation error.
AnalyseRejected ==
    /\ phase = "parsed"
    /\ \E schemaAccepts \in BOOLEAN :
          AnalyseDocument([h |-> heap, seed |-> 0], schemaAccepts, queryDoc).err
    /\ phase' = "rejected"
    /\ UNCHANGED <<heap, queryDoc, parsed, flat, reflat, inlined, documentResults, runVars>>

Next ==
    \/ \E i \in 1..Len(queryDoc.Operations) : Flatten(i)
    \/ Reflatten
    \/ \E p \in 1..MaxNodes + 1 : FlattenInlined(p)
    \/ AnalyseOk
    \/ AnalyseRejected

Spec == Init /\ [][Next]_vars

----------------------------------------------------------------------------
(* RunAnalysis, one step per statement that can fail or loop.               *)

MaxSchemaFiles == 1  \* schema files the schema pattern matches
MaxFiles       == 2  \* document files the docs pattern matches

\* What a document file holds: text ParseQuery rejects, or a document.
FileContents ==
    {[parses |-> FALSE, src |-> EmptyDoc]}
    \cup {[parses |-> TRUE, src |-> d] :
            d \in {fragmentedQuery,
                   [Operations |-> <<Def("A", <<FragmentSpread("H")>>),
                                     Def("B", <<Field("a", "a", 0, <<>>)>>)>>,
                    Fragments |-> SharedFragments],
                   [Operations |-> <<Def("Q", <<FragmentSpread("Missing")>>)>>,
                    Fragments |-> <<>>]}}

InitRun ==
    /\ heap = <<>>
    /\ queryDoc = EmptyDoc
    /\ parsed = <<>>
    /\ phase = "idle"
    /\ flat = <<>>
    /\ reflat = <<>>
    /\ inlined = <<>>
    /\ documentResults = <<>>
    /\ pc = "globSchema"
    /\ schemas = 0
    /\ matches = <<>>
    /\ idx = 0
    /\ queryFile = [h |-> <<>>, doc |-> EmptyDoc]
    /\ results = <<>>
    /\ err = ""
    /\ fileLog = <<>>

\* return nil, fmt.Errorf("<what>: %w", err)
ReturnError(what) ==
    /\ err' = what
    /\ pc' = "returned"
    /\ UNCHANGED <<schemas, matches, idx, queryFile, results, fileLog, coreVars>>

\* Mutant of Continue: the failure of a file is returned.
ReturnFileError(why) ==
    /\ err' = why
    /\ pc' = "returned"
    /\ UNCHANGED <<schemas, matches, idx, queryFile, results, fileLog, coreVars>>

\* slog.Warn(...); continue
Continue(why) ==
    /\ fileLog' = Append(fileLog, why)
    /\ idx' = idx + 1
    /\ pc' = "readFile"
    /\ UNCHANGED <<schemas, matches, queryFile, results, err, coreVars>>

\* schemas, err := fs.Glob(os.DirFS("."), schema)
GlobSchemaFails == pc = "globSchema" /\ ReturnError("globbing schema files")

GlobSchema ==
    /\ pc = "globSchema"
    /\ \E n \in 0..MaxSchemaFiles : schemas' = n
    /\ idx' = 1
    /\ pc' = "readSchema"
    /\ UNCHANGED <<matches, queryFile, results, err, fileLog, coreVars>>

\* fileBytes, err := os.ReadFile(schemaPath)
ReadSchemaFails ==
    pc = "readSchema" /\ idx <= schemas /\ ReturnError("reading schema file")

ReadSchema ==
    /\ pc = "readSchema"
    /\ idx <= schemas
    /\ idx' = idx + 1
    /\ UNCHANGED <<pc, schemas, matches, queryFile, results, err, fileLog, coreVars>>

\* schemaDoc, err := gqlparser.LoadSchema(inputs...)
LoadSchemaFails ==
    pc = "readSchema" /\ idx > schemas /\ ReturnError("loading schema")

LoadSchema ==
    /\ pc = "readSchema"
    /\ idx > schemas
    /\ pc' = "globDocs"
    /\ UNCHANGED <<schemas, matches, idx, queryFile, results, err, fileLog, coreVars>>

\* matches, err := fs.Glob(os.DirFS("."), docs)
GlobDocsFails == pc = "globDocs" /\ ReturnError("globbing documents files")

GlobDocs ==
    /\ pc = "globDocs"
    /\ \E n \in 0..MaxFiles : \E m \in [1..n -> FileContents] : matches' = m
    /\ idx' = 1
    /\ pc' = "readFile"
    /\ UNCHANGED <<schemas, queryFile, results, err, fileLog, coreVars>>

\* fileBytes, err := os.ReadFile(match)
ReadFileFails == pc = "readFile" /\ idx <= Len(matches) /\ Continue("read")

ReadFile ==
    /\ pc = "readFile"
    /\ idx <= Len(matches)
    /\ pc' = "parseQuery"
    /\ UNCHANGED <<schemas, matches, idx, queryFile, results, err, fileLog, coreVars>>

\* queryDoc, err := parser.ParseQuery(&source)
ParseQueryFails == pc = "parseQuery" /\ ~matches[idx].parses /\ Continue("parse")

ParseQueryOk ==
    /\ pc = "parseQuery"
    /\ matches[idx].parses
    /\ queryFile' = ParseQuery(matches[idx].src)
    /\ pc' = "analyse"
    /\ UNCHANGED <<schemas, matches, idx, results, err, fileLog, coreVars>>

\* analysis, err := AnalyseDocument(ctx, schemaDoc, queryDoc)
AnalyseFileFails ==
    /\ pc = "analyse"
    /\ \E schemaAccepts \in BOOLEAN :
          AnalyseDocument([h |-> queryFile.h, seed |-> 0], schemaAccepts, queryFile.doc).err
    /\ Continue("validate")

\* ComplexityAnalysis{Path: match, OperationName: res.OperationName, ...}
WithPath(match, analysis) ==
    [k \in 1..Len(analysis) |->
        [Path                |-> match,
         OperationName       |-> analysis[k].OperationName,
         Complexity          |-> analysis[k].Complexity,
         FlattenedComplexity |-> analysis[k].FlattenedComplexity]]

\* for _, res := range analysis { results = append(results, ...) }
AppendResults(r) ==
    /\ ~r.err
    /\ results' = results \o WithPath(idx, r.results)

AnalyseFile ==
    /\ pc = "analyse"
    /\ \E seed \in Seeds, schemaAccepts \in BOOLEAN :
          AppendResults(AnalyseDocument([h |-> queryFile.h, seed |-> seed],
                                        schemaAccepts, queryFile.doc))
    /\ fileLog' = Append(fileLog, "ok")
    /\ idx' = idx + 1
    /\ pc' = "readFile"
    /\ UNCHANGED <<schemas, matches, queryFile, err, coreVars>>

\* return results, nil
Return ==
    /\ pc = "readFile"
    /\ idx > Len(matches)
    /\ pc' = "returned"
    /\ UNCHANGED <<schemas, matches, idx, queryFile, results, err, fileLog, coreVars>>

NextRun ==
    \/ GlobSchemaFails \/ GlobSchema
    \/ ReadSchemaFails \/ ReadSchema
    \/ LoadSchemaFails \/ LoadSchema
    \/ GlobDocsFails \/ GlobDocs
    \/ ReadFileFails \/ ReadFile
    \/ ParseQueryFails \/ ParseQueryOk
    \/ AnalyseFileFails \/ AnalyseFile
    \/ Return

SpecRun == InitRun /\ [][NextRun]_vars

----------------------------------------------------------------------------
(* Vocabulary of the properties.                                            *)

\* The response key of the specification: the alias if present, else the name.
ResponseKey(f) == IF f.Alias # "" THEN f.Alias ELSE f.Name

AliasAndName(f) == <<f.Alias, f.Name>>

RECURSIVE Levels(_, _)
\* Every selection sequence of a tree: the root and the nested ones.
Levels(h, selectionSet) ==
    {selectionSet}
    \cup UNION {Levels(h, h[selectionSet[i]].SelectionSet) : i \in 1..Len(selectionSet)}

OnlyFields(h, selectionSet) ==
    \A i \in 1..Len(selectionSet) : h[selectionSet[i]].kind = "Field"

RECURSIVE Contributed(_, _, _)
\* The <<alias, name>> pairs of the Fields a selection sequence contributes to
\* its own level, directly or through fragments.
Contributed(h, doc, selectionSet) ==
    UNION {
        CASE h[selectionSet[i]].kind = "Field" -> {AliasAndName(h[selectionSet[i]])}
          [] h[selectionSet[i]].kind = "InlineFragment" ->
                Contributed(h, doc, h[selectionSet[i]].SelectionSet)
          [] h[selectionSet[i]].kind = "FragmentSpread" ->
                IF findFragmentDefinition(doc, h[selectionSet[i]].Name) = 0 THEN {}
                ELSE Contributed(h, doc,
                        doc.Fragments[findFragmentDefinition(doc, h[selectionSet[i]].Name)].SelectionSet)
        : i \in 1..Len(selectionSet)}

RECURSIVE ResponsePaths(_, _)
\* The response keys with their nesting: every path from the root to a Field.
ResponsePaths(h, selectionSet) ==
    UNION {
        {<<ResponseKey(h[selectionSet[i]])>>}
        \cup {<<ResponseKey(h[selectionSet[i]])>> \o q :
                q \in ResponsePaths(h, h[selectionSet[i]].SelectionSet)}
        : i \in 1..Len(selectionSet)}

\* No Inline Fragment and no Fragment Spread at any depth.
NoFragments(h, doc, selectionSet) ==
    \A id \in Reach(h, doc, selectionSet) : h[id].kind = "Field"

\* No two sibling Fields with the same alias and name, at any level.
NoRepeats(h, selectionSet) ==
    \A L \in Levels(h, selectionSet) :
        \A i, j \in 1..Len(L) : i # j => AliasAndName(h[L[i]]) # AliasAndName(h[L[j]])

\* A spread that names no fragment of the document is reachable.
HasUnresolvedSpread(h, doc, selectionSet) ==
    \E id \in Reach(h, doc, selectionSet) :
        h[id].kind = "FragmentSpread" /\ findFragmentDefinition(doc, h[id].Name) = 0

Operation(k) == queryDoc.Operations[flat[k].i]

\* Two flattened selection sequences hold the same Fields: same alias, name
\* and arguments, recursively the same children, and as many of them.
SameFields(h1, s1, h2, s2) ==
    /\ Canon(h1, s1) = Canon(h2, s2)
    /\ CountNodes(h1, s1) = CountNodes(h2, s2)

\* The root field of the only operation selects k >= 1 resolved spreads whose
\* fragments all hold the same n distinct leaf Fields.
SpreadRoot == heap[queryDoc.Operations[1].SelectionSet[1]]

SpreadBody(j) ==
    queryDoc.Fragments[findFragmentDefinition(queryDoc, heap[SpreadRoot.SelectionSet[j]].Name)].SelectionSet

IsSpreadDocument ==
    /\ Len(queryDoc.Operations) = 1
    /\ Len(queryDoc.Operations[1].SelectionSet) = 1
    /\ SpreadRoot.kind = "Field"
    /\ Len(SpreadRoot.SelectionSet) >= 1
    /\ \A j \in 1..Len(SpreadRoot.SelectionSet) :
          /\ heap[SpreadRoot.SelectionSet[j]].kind = "FragmentSpread"
          /\ findFragmentDefinition(queryDoc, heap[SpreadRoot.SelectionSet[j]].Name) # 0
          /\ \A a \in 1..Len(SpreadBody(j)) :
                /\ heap[SpreadBody(j)[a]].kind = "Field"
                /\ heap[SpreadBody(j)[a]].SelectionSet = <<>>
                /\ \A b \in 1..Len(SpreadBody(j)) :
                      a # b => AliasAndName(heap[SpreadBody(j)[a]]) # AliasAndName(heap[SpreadBody(j)[b]])
          /\ {AliasAndName(heap[SpreadBody(j)[a]]) : a \in 1..Len(SpreadBody(j))}
               = {AliasAndName(heap[SpreadBody(1)[a]]) : a \in 1..Len(SpreadBody(1))}

----------------------------------------------------------------------------
(* The properties.                                                          *)

\* C1: on a validated document whose single root field selects k fragment
\* spreads that each contribute the same n leaf fields, AnalyseDocument
\* returns one record with Complexity = 1 + k*n and FlattenedComplexity = 1 + n.
C1_SpreadsCountedOncePerSpread ==
    (phase = "analysed" /\ IsSpreadDocument) =>
        documentResults =
            <<[OperationName       |-> queryDoc.Operations[1].Name,
               Complexity          |-> 1 + Len(SpreadRoot.SelectionSet) * Len(SpreadBody(1)),
               FlattenedComplexity |-> 1 + Len(SpreadBody(1))]>>

\* The fixture GetOrder has been analysed: Complexity 5, FlattenedComplexity 3.
C1_Witness ==
    /\ phase = "analysed"
    /\ queryDoc = ParseQuery(fragmentedQuery).doc
    /\ IsSpreadDocument
    /\ documentResults =
          <<[OperationName |-> "GetOrder", Complexity |-> 5, FlattenedComplexity |-> 3]>>

C3_InputsUnchanged ==
    /\ Len(heap) >= Len(parsed)
    /\ \A id \in 1..Len(parsed) : heap[id] = parsed[id]
    /\ SpreadsResolve(parsed, queryDoc) =>
          \A i \in 1..Len(queryDoc.Operations) :
              Calculate(heap, queryDoc, queryDoc.Operations[i])
                = Calculate(parsed, queryDoc, queryDoc.Operations[i])

\* Two operations sharing fragments have been flattened, and the merge wrote
\* selection sets: the first flattened operation is smaller than its input.
C3_Witness ==
    /\ phase = "analysed"
    /\ Len(documentResults) = 2
    /\ documentResults[1].FlattenedComplexity < documentResults[1].Complexity
    /\ Len(heap) > Len(parsed)

\* C4: when a selection set reachable from the operation holds a Fragment
\* Spread that names no fragment of the document, flatten fails: it returns
\* no flattened tree for that operation.
C4_UnresolvedSpreadFails ==
    \A k \in 1..Len(flat) :
        ~HasUnresolvedSpread(parsed, queryDoc, Operation(k).SelectionSet)

\* C5 as claimed: for every operation without Inline Fragment and Fragment
\* Spread at any depth, the flattened selection set has the same response
\* keys with the same nesting, and raw complexity equals flattened complexity.
C5_NoFragmentSameComplexity ==
    phase = "analysed" =>
        \A k \in 1..Len(documentResults) :
            NoFragments(parsed, queryDoc, Operation(k).SelectionSet) =>
                /\ ResponsePaths(heap, flat[k].op.SelectionSet)
                     = ResponsePaths(parsed, Operation(k).SelectionSet)
                /\ documentResults[k].FlattenedComplexity = documentResults[k].Complexity

\* C5 as amended: for every such operation the response keys and their
\* nesting are the same, and raw complexity equals flattened complexity
\* exactly when no two sibling Fields repeat an alias and name, at any level;
\* otherwise the flattened complexity is smaller.
C5_NoFragmentSameUnlessRepeated ==
    phase = "analysed" =>
        \A k \in 1..Len(documentResults) :
            NoFragments(parsed, queryDoc, Operation(k).SelectionSet) =>
                /\ ResponsePaths(heap, flat[k].op.SelectionSet)
                     = ResponsePaths(parsed, Operation(k).SelectionSet)
                /\ documentResults[k].FlattenedComplexity <= documentResults[k].Complexity
                /\ (documentResults[k].FlattenedComplexity = documentResults[k].Complexity)
                     <=> NoRepeats(parsed, Operation(k).SelectionSet)

\* An operation of nested Fields without fragments and repeats was analysed.
C5_Witness ==
    /\ phase = "analysed"
    /\ NoFragments(parsed, queryDoc, Operation(1).SelectionSet)
    /\ NoRepeats(parsed, Operation(1).SelectionSet)
    /\ Len(Operation(1).SelectionSet) = 2
    /\ documentResults[1].Complexity = 3
    /\ documentResults[1].FlattenedComplexity = 3

\* C6: flattenSelectionSet is idempotent on documents whose spreads all
\* resolve: flattening a flattened selection set gives the same Fields.
C6_Idempotent ==
    (phase = "reflattened" /\ SpreadsResolve(parsed, queryDoc)) =>
        SameFields(heap, reflat, heap, Last(flat).op.SelectionSet)

\* A selection set with fragments that merged Fields was flattened twice.
C6_Witness ==
    /\ phase = "reflattened"
    /\ SpreadsResolve(parsed, queryDoc)
    /\ ~NoFragments(parsed, queryDoc, Operation(Len(flat)).SelectionSet)
    /\ Len(reflat) >= 2
    /\ CountNodes(heap, reflat) >= 3
    /\ CountNodes(heap, reflat)
         < Calculate(parsed, queryDoc, Operation(Len(flat)))

\* C7: fragment transparency: replacing one Inline Fragment or Fragment
\* Spread of a selection set by the Fields of its flattened selection set, at
\* the same position, and flattening gives the same Fields, with the same
\* arguments, as flattening the selection set itself.
C7_FragmentTransparent ==
    phase = "inlined" =>
        SameFields(heap, inlined, heap, Last(flat).op.SelectionSet)

\* A fragment was expanded by hand beside other selections, and the result
\* is smaller than what the fragment and its siblings contribute.
C7_Witness ==
    /\ phase = "inlined"
    /\ Len(Operation(Len(flat)).SelectionSet) >= 2
    /\ Len(inlined) >= 2
    /\ SpreadsResolve(parsed, queryDoc)
    /\ CountNodes(heap, inlined) < Calculate(parsed, queryDoc, Operation(Len(flat)))

\* The flatten of operation k as the run with seed 0 on the parsed store
\* returns it.
SameAsRun(k, ref) ==
    SameFields(heap, flat[k].op.SelectionSet, ref.h, ref.op.SelectionSet)

\* C9: the flattened result does not depend on the iteration order of the
\* deduplication map: every run returns the Fields the run with seed 0
\* returns, and so the same flattened complexity.
C9_OrderIndependent ==
    \A k \in 1..Len(flat) :
        SameAsRun(k, flatten([h |-> parsed, seed |-> 0], queryDoc, Operation(k)))

DifferentOrder(k, ref) ==
    /\ Len(ref.op.SelectionSet) >= 2
    /\ [i \in 1..Len(ref.op.SelectionSet) |-> AliasAndName(ref.h[ref.op.SelectionSet[i]])]
         # [i \in 1..Len(flat[k].op.SelectionSet) |-> AliasAndName(heap[flat[k].op.SelectionSet[i]])]

\* A run returned its root Fields in another order than the run with seed 0.
C9_Witness ==
    /\ phase = "flattened"
    /\ Len(flat) = 1
    /\ DifferentOrder(1, flatten([h |-> parsed, seed |-> 0], queryDoc, Operation(1)))

\* C10: for every operation of a document whose spreads all resolve, the
\* FlattenedComplexity AnalyseDocument reports is at most the Complexity.
C10_FlattenedAtMostRaw ==
    phase = "analysed" =>
        \A k \in 1..Len(documentResults) :
            documentResults[k].FlattenedComplexity <= documentResults[k].Complexity

\* An analysed operation whose flattened complexity is strictly smaller.
C10_Witness ==
    /\ phase = "analysed"
    /\ \E k \in 1..Len(documentResults) :
          /\ documentResults[k].FlattenedComplexity < documentResults[k].Complexity
          /\ documentResults[k].FlattenedComplexity >= 2

----------------------------------------------------------------------------
(* RunAnalysis.                                                             *)

\* The records AnalyseDocument returns for matched file i.
RecordsOfFile(i) ==
    WithPath(i, AnalyseDocument([h |-> ParseQuery(matches[i].src).h, seed |-> 0],
                                TRUE, ParseQuery(matches[i].src).doc).results)

RECURSIVE RecordsUpTo(_)
\* The records of the files that succeeded, in file order.
RecordsUpTo(n) ==
    IF n = 0 THEN <<>>
    ELSE RecordsUpTo(n - 1) \o (IF fileLog[n] = "ok" THEN RecordsOfFile(n) ELSE <<>>)

\* The result holds exactly the records of the files that succeeded so far,
\* every file that succeeded parses, and a run that returns without error has
\* gone through every matched file.
ResultsOfSucceededFiles ==
    /\ results = RecordsUpTo(Len(fileLog))
    /\ \A i \in 1..Len(fileLog) : fileLog[i] = "ok" => matches[i].parses
    /\ (pc = "returned" /\ err = "" ) => Len(fileLog) = Len(matches)
    /\ pc \in {"readFile", "parseQuery", "analyse"} => err = ""
    /\ Len(fileLog) > 0 => err = ""

\* C8 as claimed: no document makes RunAnalysis return an error, the result
\* holds exactly the records of the files that succeeded, and only schema
\* glob, schema read or schema load failures make RunAnalysis return an error.
C8_OnlySchemaFailuresAbort ==
    /\ ResultsOfSucceededFiles
    /\ err \in {"", "globbing schema files", "reading schema file", "loading schema"}

\* C8 as amended: the same, with the failure of the document glob as the
\* fourth and last cause of an error.
C8_OnlyGlobAndSchemaFailuresAbort ==
    /\ ResultsOfSucceededFiles
    /\ err \in {"", "globbing schema files", "reading schema file", "loading schema",
                "globbing documents files"}

\* A run returned without error after a file failed and a later file succeeded.
C8_Witness ==
    /\ pc = "returned"
    /\ err = ""
    /\ Len(fileLog) = 2
    /\ fileLog[1] # "ok"
    /\ fileLog[2] = "ok"
    /\ Len(results) >= 1

====
